---- MODULE Spec2Model ----
(***************************************************************************)
(* Model of kafka_realtime_pipeline: the synthetic appointment producer    *)
(* (producer.py) and the polling dashboard (dashboard.py).                 *)
(*                                                                         *)
(* Money is counted in mills (1/1000 of a dollar) so that round(x, 2) is a *)
(* real rounding; time is counted in whole seconds.                        *)
(***************************************************************************)
EXTENDS Integers, Sequences, FiniteSets, TLC

VARIABLES
    \* ---- producer.py ----
    ppc,        \* position of run_producer
    apt,        \* the local `apt` between generation and producer.send
    generated,  \* number of calls of generate_synthetic_appointment so far
    count,      \* the local `count`: events acknowledged and flushed
    paced,      \* number of completed time.sleep(sleep_time) after a publish
    unacked,    \* records handed to producer.send and not yet acknowledged
    attempts,   \* send attempts of the client for the record in flight
    timeouts,   \* of these, attempts during which the caller's wait ran out
    elapsed,    \* seconds the caller has spent in future.get for this record
    receipt,    \* the last record_metadata, or NoReceipt
    fatal       \* the exception that ended run_producer, or "none"

VARIABLES
    \* ---- the store the dashboard reads (filled by the consumer) ----
    store,            \* rows of table appointments, in arrival order
    columns,          \* the columns of the table
    \* ---- dashboard.py ----
    selected_status,  \* sidebar: "Filter by Status"
    update_interval,  \* sidebar: "Update Interval (seconds)"
    limit_records,    \* sidebar: "Number of records to load"
    rerun,            \* "Refresh now" was clicked and the rerun is pending
    dpc,              \* position of the script
    df_appointments,  \* the frame load_data returned to the running cycle
    lastFetch,        \* how the last load_data ended: "none", "ok", "error"
    view,             \* "none", "Waiting" or "Displaying"
    rollup,           \* the aggregates the running cycle has computed
    rendered,         \* the elements written into `placeholder`
    slept,            \* seconds of the running time.sleep(update_interval)
    derr              \* the exception that ended the script, or "none"

pvars == <<ppc, apt, generated, count, paced, unacked, attempts, timeouts,
           elapsed, receipt, fatal>>

dvars == <<store, columns, selected_status, update_interval, limit_records,
           rerun, dpc, df_appointments, lastFetch, view, rollup, rendered,
           slept, derr>>

vars == <<pvars, dvars>>

\* Bound of the model: number of rows the store comes to hold.
MaxRows == 2

\* str(uuid.uuid4())[:8]: a random token; the tokens are modelled by their
\* rank in the order of the strings.
Tokens == 0 .. (MaxRows - 1)

\* datetime.now() of the first event, in seconds.
FirstArrivals == {50}

(***************************************************************************)
(*                               producer.py                               *)
(***************************************************************************)

\* Bound of the model: number of events one run of the producer generates.
MaxEvents == 2

departments == {"Cardiology", "Neurology", "Orthopedics", "Pediatrics",
                "Dermatology", "Oncology", "Radiology"}
statuses == {"Scheduled", "Completed", "Cancelled", "No-Show"}
cities == {"New York", "Chicago", "Los Angeles", "Houston", "Phoenix",
           "Boston", "Seattle"}
payment_methods == {"Insurance", "Self-Pay", "Medicare", "Medicaid"}
urgency_levels == {"Low", "Medium", "High", "Critical"}

\* fake.pyfloat(min_value=80, max_value=1200, right_digits=2), in mills:
\* the two ends of the range and one value between them.
BaseCostMin == 80000
BaseCostMax == 1200000
BaseCostDraws == {BaseCostMin, 640550, BaseCostMax}
\* fake.pyfloat(min_value=10, max_value=80, right_digits=2), in mills.
CopayMin == 10000
CopayMax == 80000
CopayDraws == {CopayMin, 45250, CopayMax}

\* round(x, 2) on a value in mills: to the nearest cent, ties to even.
round2(x) ==
    LET lo == (x \div 10) * 10
        r  == x - lo
    IN  IF r < 5 THEN lo
        ELSE IF r > 5 THEN lo + 10
        ELSE IF (lo \div 10) % 2 = 0 THEN lo ELSE lo + 10

NoEvent == [appointment_id |-> "none"]
NoReceipt == [partition |-> -1, offset |-> -1]

\* A generator that draws the copay whatever the payment method.
generate_copay_always(id, department, status, city, payment_method, urgency, base_draw, copay_draw, now) ==
    LET base_cost  == base_draw
        copay      == copay_draw
        total_cost == base_cost + copay
    IN  [appointment_id |-> id, status |-> status, department |-> department,
         urgency |-> urgency, cost |-> round2(total_cost), timestamp |-> now,
         city |-> city, payment_method |-> payment_method,
         copay |-> round2(copay)]

\* generate_synthetic_appointment, with the random draws (the uuid token, the
\* choices, the two pyfloat) and datetime.now() as parameters.
generate_synthetic_appointment(id, department, status, city, payment_method, urgency, base_draw, copay_draw, now) ==
    LET base_cost  == base_draw
        copay      == IF payment_method # "Self-Pay" THEN copay_draw ELSE 0
        total_cost == base_cost + copay
    IN  [appointment_id |-> id, status |-> status, department |-> department,
         urgency |-> urgency, cost |-> round2(total_cost), timestamp |-> now,
         city |-> city, payment_method |-> payment_method,
         copay |-> round2(copay)]

\* KafkaProducer(retries=5): retries after the first attempt.
Retries == 5
\* request_timeout_ms=30000: the client fails an attempt after 30 s.
RequestTimeoutS == 30
\* future.get(timeout=10): the caller waits 10 s for the acknowledgment.
GetTimeoutS == 10
\* How long one send attempt may take: at once, a few seconds, or up to the
\* request timeout.
AttemptDurations == {0, 4, RequestTimeoutS}

\* A handler that logs the exception and goes on with the next event.
OnExceptionSwallow == "generate"

\* except Exception as e: print, traceback, raise -- run_producer ends.
OnException == "terminated"

Raise(e) ==
    /\ ppc' = OnException
    /\ fatal' = e

\* KafkaProducer(...): the connection to localhost:9092 is made, or the
\* constructor raises NoBrokersAvailable.
Connect ==
    /\ UNCHANGED dvars
    /\ ppc = "connect"
    /\ \/ /\ ppc' = "generate"
          /\ fatal' = fatal
       \/ Raise("NoBrokersAvailable")
    /\ UNCHANGED <<apt, generated, count, paced, unacked, attempts, timeouts,
                   elapsed, receipt>>

\* apt = generate_synthetic_appointment(); print(...)
Generate ==
    /\ UNCHANGED dvars
    /\ ppc = "generate"
    /\ generated < MaxEvents
    /\ \E d \in departments, s \in statuses, c \in cities,
          p \in payment_methods, u \in urgency_levels,
          b \in BaseCostDraws, k \in CopayDraws :
          \E id \in Tokens, now \in FirstArrivals :
          apt' = generate_synthetic_appointment(id, d, s, c, p, u, b, k, now)
    /\ generated' = generated + 1
    /\ ppc' = "send"
    /\ UNCHANGED <<count, paced, unacked, attempts, timeouts, elapsed,
                   receipt, fatal>>

\* A producer that does not wait for the acknowledgment of what it sent.
SendNoWait ==
    /\ UNCHANGED dvars
    /\ ppc = "send"
    /\ unacked' = unacked + 1
    /\ apt' = NoEvent
    /\ ppc' = "pace"
    /\ UNCHANGED <<generated, count, paced, attempts, timeouts, elapsed,
                   receipt, fatal>>

\* future = producer.send("appointments", value=apt): the record is serialised
\* and queued, or send blocks past max_block_ms and raises KafkaTimeoutError.
\* `apt` is not read again after this line.
Send ==
    /\ UNCHANGED dvars
    /\ ppc = "send"
    /\ \/ /\ unacked' = unacked + 1
          /\ attempts' = 0
          /\ timeouts' = 0
          /\ elapsed' = 0
          /\ receipt' = NoReceipt
          /\ apt' = NoEvent
          /\ ppc' = "await"
          /\ fatal' = fatal
       \/ /\ Raise("KafkaTimeoutError")
          /\ UNCHANGED <<apt, unacked, attempts, timeouts, elapsed, receipt>>
    /\ UNCHANGED <<generated, count, paced>>

\* record_metadata = future.get(timeout=10), while the client makes one send
\* attempt of d seconds that is acknowledged or fails with a retriable error.
\*  - the 10 s run out during the attempt: get raises KafkaTimeoutError;
\*  - acknowledged: get returns the record's partition and offset;
\*  - failed with retries left: the client sends again;
\*  - failed with no retry left: the future fails and get raises the error.
Attempt ==
    /\ UNCHANGED dvars
    /\ ppc = "await"
    /\ \E d \in AttemptDurations, acked \in BOOLEAN :
          /\ d = RequestTimeoutS => ~acked
          /\ attempts' = attempts + 1
          /\ IF elapsed + d > GetTimeoutS
             THEN /\ Raise("KafkaTimeoutError")
                  /\ timeouts' = timeouts + 1
                  /\ elapsed' = GetTimeoutS
                  /\ UNCHANGED <<unacked, receipt>>
             ELSE IF acked
             THEN /\ receipt' = [partition |-> 0, offset |-> count]
                  /\ unacked' = unacked - 1
                  /\ elapsed' = elapsed + d
                  /\ ppc' = "flush"
                  /\ UNCHANGED <<timeouts, fatal>>
             ELSE IF attempts < Retries
             THEN /\ elapsed' = elapsed + d
                  /\ UNCHANGED <<ppc, unacked, receipt, timeouts, fatal>>
             ELSE /\ Raise("KafkaError")
                  /\ elapsed' = elapsed + d
                  /\ UNCHANGED <<unacked, receipt, timeouts>>
    /\ UNCHANGED <<apt, generated, count, paced>>

\* print(record_metadata...); producer.flush(); count += 1
\* The future of the acknowledged record is not used again.
Flush ==
    /\ UNCHANGED dvars
    /\ ppc = "flush"
    /\ count' = count + 1
    /\ attempts' = 0
    /\ timeouts' = 0
    /\ elapsed' = 0
    /\ ppc' = "pace"
    /\ UNCHANGED <<apt, generated, paced, unacked, receipt, fatal>>

\* sleep_time = random.uniform(0.5, 2.0); time.sleep(sleep_time)
Pace ==
    /\ UNCHANGED dvars
    /\ ppc = "pace"
    /\ paced' = paced + 1
    /\ ppc' = "generate"
    /\ UNCHANGED <<apt, generated, count, unacked, attempts, timeouts,
                   elapsed, receipt, fatal>>

(***************************************************************************)
(*                     the store (consumer and database)                   *)
(***************************************************************************)

AllColumns == {"appointment_id", "status", "department", "urgency", "cost",
               "timestamp", "city", "payment_method", "copay"}

\* The events that arrive in the store: four draws of the generator
\* (department, status, city, payment_method, urgency, base cost, copay).
ArrivalDraws ==
    { <<"Cardiology", "Completed", "Boston", "Insurance", "High",
        BaseCostMin, CopayMin>>,
      <<"Cardiology", "Cancelled", "Boston", "Self-Pay", "Low",
        640550, 45250>>,
      <<"Oncology", "Completed", "Seattle", "Medicare", "High",
        BaseCostMax, CopayMax>>,
      <<"Oncology", "Scheduled", "Seattle", "Self-Pay", "High",
        BaseCostMin, CopayMin>> }

\* The possible distances in seconds between two events: the same minute, or
\* the minute after the next.
ArrivalGaps == {0, 90}

\* The consumer persists one more generated event: a fresh token, a timestamp
\* not before the last one.
Insert ==
    /\ Len(store) < MaxRows
    /\ \E a \in ArrivalDraws,
          id \in Tokens \ {store[i].appointment_id : i \in 1 .. Len(store)},
          t \in IF store = <<>> THEN FirstArrivals
                ELSE {store[Len(store)].timestamp + g : g \in ArrivalGaps} :
          store' = Append(store,
                      generate_synthetic_appointment(id, a[1], a[2], a[3],
                                                     a[4], a[5], a[6], a[7], t))
    /\ UNCHANGED <<columns, selected_status, update_interval, limit_records,
                   rerun, dpc, df_appointments, lastFetch, view, rollup,
                   rendered, slept, derr>>
    /\ UNCHANGED pvars

(***************************************************************************)
(*                              dashboard.py                               *)
(***************************************************************************)

\* The permutation of 1 .. Len(keys) that sorts the integer keys, descending
\* or ascending, rows of equal key staying in their order.
OrderDesc(keys) ==
    LET n == Len(keys)
    IN  CHOOSE p \in [1 .. n -> 1 .. n] :
            /\ \A i, j \in 1 .. n : i # j => p[i] # p[j]
            /\ \A i, j \in 1 .. n : i < j =>
                  \/ keys[p[i]] > keys[p[j]]
                  \/ keys[p[i]] = keys[p[j]] /\ p[i] < p[j]

OrderAsc(keys) == OrderDesc([i \in 1 .. Len(keys) |-> 0 - keys[i]])

Permute(s, p) == [i \in 1 .. Len(s) |-> s[p[i]]]

RECURSIVE SumSeq(_)
SumSeq(s) == IF s = <<>> THEN 0 ELSE Head(s) + SumSeq(Tail(s))

Min2(a, b) == IF a < b THEN a ELSE b

\* pd.DataFrame(): no columns, no rows.
EmptyFrame == [columns |-> {}, rows |-> <<>>]

\* df_appointments.empty
IsEmpty(frame) == frame.columns = {} \/ frame.rows = <<>>

\* load_data, the query succeeding: SELECT * FROM appointments
\* [WHERE status = :status] ORDER BY appointment_id DESC LIMIT :limit
load_data(status_filter, limit) ==
    LET filtered == IF status_filter # "" /\ status_filter # "All"
                    THEN SelectSeq(store, LAMBDA r : r.status = status_filter)
                    ELSE store
        ordered  == Permute(filtered,
                       OrderDesc([i \in 1 .. Len(filtered) |->
                                     filtered[i].appointment_id]))
    IN  [columns |-> columns,
         rows    |-> SubSeq(ordered, 1, Min2(limit, Len(ordered)))]

status_options == <<"All", "Scheduled", "Completed", "Cancelled", "No-Show">>

\* The order of the strings, for the sorted keys of a groupby.
StatusKeys == <<"Cancelled", "Completed", "No-Show", "Scheduled">>
DepartmentKeys == <<"Cardiology", "Dermatology", "Neurology", "Oncology",
                    "Orthopedics", "Pediatrics", "Radiology">>
UrgencyKeys == <<"Critical", "High", "Low", "Medium">>
PaymentKeys == <<"Insurance", "Medicaid", "Medicare", "Self-Pay">>

\* df_appointments[name]: one column of the rows.
Column(rows, name) == [i \in 1 .. Len(rows) |-> rows[i][name]]

\* KPIs: money in mills and the rate in hundredths of a percent, both cut to
\* a whole number of these units.
Kpis(frame) ==
    LET rows        == frame.rows
        total_appts == Len(rows)
        total_cost  == SumSeq(Column(rows, "cost"))
        completed   == Len(SelectSeq(rows, LAMBDA r : r.status = "Completed"))
        cancelled   == Len(SelectSeq(rows, LAMBDA r : r.status = "Cancelled"))
    IN  [total_appts     |-> total_appts,
         total_cost      |-> total_cost,
         average_cost    |-> IF total_appts > 0
                             THEN total_cost \div total_appts ELSE 0,
         completed       |-> completed,
         cancelled       |-> cancelled,
         completion_rate |-> IF total_appts > 0
                             THEN (completed * 10000) \div total_appts ELSE 0,
         avg_copay       |-> IF "copay" \in frame.columns
                             THEN SumSeq(Column(rows, "copay"))
                                  \div total_appts
                             ELSE 0]

\* A status mix that keeps only the two statuses the KPIs count.
StatusSummaryKpiStatusesOnly(rows) ==
    LET group(k) ==
            LET g == SelectSeq(rows, LAMBDA r : r.status = k)
            IN  [status |-> k, appointments |-> Len(g),
                 revenue |-> SumSeq(Column(g, "cost"))]
        groups == SelectSeq(<<group("Completed"), group("Cancelled")>>,
                            LAMBDA g : g.appointments > 0)
    IN  Permute(groups, OrderDesc(Column(groups, "appointments")))

\* df_appointments.groupby("status").agg(appointments=count, revenue=sum).reset_index()
\*   .sort_values("appointments", ascending=False)
\* Groups of equal count are kept in the order of their keys.
status_summary(rows) ==
    LET group(k) ==
            LET g == SelectSeq(rows, LAMBDA r : r.status = k)
            IN  [status |-> k, appointments |-> Len(g),
                 revenue |-> SumSeq(Column(g, "cost"))]
        groups == SelectSeq([i \in 1 .. Len(StatusKeys) |-> group(StatusKeys[i])],
                            LAMBDA g : g.appointments > 0)
    IN  Permute(groups, OrderDesc(Column(groups, "appointments")))

\* df_appointments.groupby(["department", "urgency"]).size().reset_index(name="appointments")
\*   .sort_values("appointments", ascending=False)
urgency_by_dept(rows) ==
    LET nu == Len(UrgencyKeys)
        group(d, u) ==
            [department |-> d, urgency |-> u,
             appointments |-> Len(SelectSeq(rows,
                 LAMBDA r : r.department = d /\ r.urgency = u))]
        pairs == [i \in 1 .. Len(DepartmentKeys) * nu |->
                     group(DepartmentKeys[((i - 1) \div nu) + 1],
                           UrgencyKeys[((i - 1) % nu) + 1])]
        groups == SelectSeq(pairs, LAMBDA g : g.appointments > 0)
    IN  Permute(groups, OrderDesc(Column(groups, "appointments")))

\* df_appointments.groupby("payment_method").agg(avg_cost=mean, avg_copay=mean, volume=count)
\*   .reset_index().sort_values("avg_cost", ascending=False)
\* Called only on a frame that has a "copay" column.
payment_summary(rows) ==
    LET group(k) ==
            LET g == SelectSeq(rows, LAMBDA r : r.payment_method = k)
                n == Len(g)
            IN  [payment_method |-> k,
                 avg_cost  |-> IF n > 0
                               THEN SumSeq(Column(g, "cost")) \div n
                               ELSE 0,
                 avg_copay |-> IF n > 0
                               THEN SumSeq(Column(g, "copay")) \div n
                               ELSE 0,
                 volume    |-> n]
        groups == SelectSeq([i \in 1 .. Len(PaymentKeys) |-> group(PaymentKeys[i])],
                            LAMBDA g : g.volume > 0)
    IN  Permute(groups, OrderDesc(Column(groups, "avg_cost")))

\* resample("1Min"): buckets of 60 s, closed on the left, anchored to the clock.
BucketSeconds == 60

\* volume_cost_trend: empty without a "timestamp" column; otherwise
\* df_appointments.sort_values("timestamp").set_index("timestamp").resample("1Min")
\*   .agg(appointments=count, revenue=sum).reset_index()
\* : one row per minute from the first row's minute to the last row's.
volume_cost_trend(frame) ==
    IF "timestamp" \notin frame.columns \/ frame.rows = <<>> THEN <<>>
    ELSE LET rows   == frame.rows
             df_time == Permute(rows,
                           OrderAsc(Column(rows, "timestamp")))
             first  == df_time[1].timestamp \div BucketSeconds
             last   == df_time[Len(df_time)].timestamp \div BucketSeconds
             bucket(b) ==
                 LET g == SelectSeq(df_time,
                             LAMBDA r : r.timestamp \div BucketSeconds = b)
                 IN  [timestamp |-> b * BucketSeconds, appointments |-> Len(g),
                      revenue |-> SumSeq(Column(g, "cost"))]
         IN  [i \in 1 .. (last - first + 1) |-> bucket(first + i - 1)]

\* df_appointments.head(10)
PreviewRows == 10
Preview(frame) == SubSeq(frame.rows, 1, Min2(PreviewRows, Len(frame.rows)))

NoKpis == [total_appts |-> -1]
NoRollup == [computed |-> {}, kpis |-> NoKpis, status_summary |-> <<>>,
             urgency_by_dept |-> <<>>, payment_summary |-> <<>>,
             volume_cost_trend |-> <<>>, preview |-> <<>>]

FiveRollups == {"kpis", "status_summary", "urgency_by_dept", "payment_summary",
                "volume_cost_trend"}

\* What a cycle that shows data writes into the placeholder after the KPIs.
ChartElements(trend) ==
    {IF trend # <<>> THEN "fig_flow" ELSE "fig_flow_placeholder",
     "fig_status", "fig_urgency", "fig_payment", "raw_top10", "caption"}

\* The script starts again from its first line: the button returns True,
\* st.rerun() starts it once more, the button returns False, the loop begins.
Restart ==
    /\ rerun' = FALSE
    /\ dpc' = "poll"
    /\ df_appointments' = EmptyFrame
    /\ lastFetch' = "none"
    /\ view' = "none"
    /\ rollup' = NoRollup
    /\ rendered' = {}
    /\ slept' = 0
    /\ derr' = "none"

\* The sidebar button "Refresh now" is clicked: the script runner notes a rerun
\* request, which the running script meets at its next Streamlit call.
ClickRefresh ==
    /\ ~rerun
    /\ rerun' = TRUE
    /\ UNCHANGED <<store, columns, selected_status, update_interval,
                   limit_records, dpc, df_appointments, lastFetch, view,
                   rollup, rendered, slept, derr>>
    /\ UNCHANGED pvars

\* A load_data without the try/except: the error of the query ends the script.
PollRaises ==
    /\ dpc = "poll"
    /\ \/ /\ df_appointments' = load_data(selected_status, limit_records)
          /\ lastFetch' = "ok"
          /\ dpc' = "container"
          /\ derr' = derr
       \/ /\ df_appointments' = df_appointments
          /\ lastFetch' = "error"
          /\ dpc' = "crashed"
          /\ derr' = "OperationalError"
    /\ UNCHANGED <<store, columns, selected_status, update_interval,
                   limit_records, rerun, view, rollup, rendered, slept>>
    /\ UNCHANGED pvars

\* df_appointments = load_data(selected_status, limit=int(limit_records))
\* The query returns the rows, or it fails: st.error (a Streamlit call, where
\* a pending rerun takes over) and an empty frame.
Poll ==
    /\ dpc = "poll"
    /\ \/ /\ df_appointments' = load_data(selected_status, limit_records)
          /\ lastFetch' = "ok"
          /\ dpc' = "container"
          /\ UNCHANGED <<rerun, view, rollup, rendered, slept, derr>>
       \/ /\ ~rerun
          /\ df_appointments' = EmptyFrame
          /\ lastFetch' = "error"
          /\ dpc' = "container"
          /\ UNCHANGED <<rerun, view, rollup, rendered, slept, derr>>
       \/ /\ rerun
          /\ Restart
    /\ UNCHANGED <<store, columns, selected_status, update_interval,
                   limit_records>>
    /\ UNCHANGED pvars

\* with placeholder.container(): the empty frame shows the notice and sleeps;
\* any other frame gets its subheader and the five KPI metrics. The call of
\* placeholder.container() is where a pending rerun takes over. The timestamps
\* are already numbers here, so pd.to_datetime changes nothing.
Container ==
    /\ dpc = "container"
    /\ \/ /\ rerun
          /\ Restart
       \/ /\ ~rerun
          /\ IsEmpty(df_appointments)
          /\ view' = "Waiting"
          /\ rendered' = {"notice"}
          /\ rollup' = NoRollup
          /\ slept' = 0
          /\ dpc' = "sleep"
          /\ UNCHANGED <<rerun, df_appointments, lastFetch, derr>>
       \/ /\ ~rerun
          /\ ~IsEmpty(df_appointments)
          /\ view' = "Displaying"
          /\ rendered' = {"subheader", "kpis"}
          /\ rollup' = [NoRollup EXCEPT !.computed = {"kpis"},
                                        !.kpis = Kpis(df_appointments)]
          /\ dpc' = "charts"
          /\ UNCHANGED <<rerun, df_appointments, lastFetch, slept, derr>>
    /\ UNCHANGED <<store, columns, selected_status, update_interval,
                   limit_records>>
    /\ UNCHANGED pvars

\* The four grouped tables, the five figures, the raw rows and the caption,
\* then time.sleep(update_interval) begins. The aggregation of "copay" by
\* payment method raises KeyError on a frame without that column, before the
\* first Streamlit call of this part.
Charts ==
    /\ dpc = "charts"
    /\ \/ /\ "copay" \notin df_appointments.columns
          /\ rollup' = [rollup EXCEPT
                !.computed = @ \cup {"status_summary", "urgency_by_dept"},
                !.status_summary = status_summary(df_appointments.rows),
                !.urgency_by_dept = urgency_by_dept(df_appointments.rows)]
          /\ derr' = "KeyError"
          /\ dpc' = "crashed"
          /\ UNCHANGED <<rerun, df_appointments, lastFetch, view, rendered, slept>>
       \/ /\ "copay" \in df_appointments.columns
          /\ rerun
          /\ Restart
       \/ /\ "copay" \in df_appointments.columns
          /\ ~rerun
          /\ rollup' = [computed |-> FiveRollups,
                        kpis |-> rollup.kpis,
                        status_summary |-> status_summary(df_appointments.rows),
                        urgency_by_dept |-> urgency_by_dept(df_appointments.rows),
                        payment_summary |-> payment_summary(df_appointments.rows),
                        volume_cost_trend |-> volume_cost_trend(df_appointments),
                        preview |-> Preview(df_appointments)]
          /\ rendered' = rendered \cup ChartElements(volume_cost_trend(df_appointments))
          /\ slept' = 0
          /\ dpc' = "sleep"
          /\ UNCHANGED <<rerun, df_appointments, lastFetch, view, derr>>
    /\ UNCHANGED <<store, columns, selected_status, update_interval,
                   limit_records>>
    /\ UNCHANGED pvars

\* One second of time.sleep(update_interval) passes.
Tick ==
    /\ dpc = "sleep"
    /\ slept < update_interval
    /\ slept' = slept + 1
    /\ UNCHANGED <<store, columns, selected_status, update_interval,
                   limit_records, rerun, dpc, df_appointments, lastFetch,
                   view, rollup, rendered, derr>>
    /\ UNCHANGED pvars

\* time.sleep(update_interval) returns; the loop goes to its next iteration.
Wake ==
    /\ dpc = "sleep"
    /\ slept = update_interval
    /\ dpc' = "poll"
    /\ UNCHANGED <<store, columns, selected_status, update_interval,
                   limit_records, rerun, df_appointments, lastFetch, view, rollup,
                   rendered, slept, derr>>
    /\ UNCHANGED pvars

\* The script has ended with an exception; a pending rerun starts it again.
RerunAfterExit ==
    /\ dpc = "crashed"
    /\ rerun
    /\ Restart
    /\ UNCHANGED <<store, columns, selected_status, update_interval,
                   limit_records>>
    /\ UNCHANGED pvars

\* st.sidebar.slider(min_value=2, ...), number_input(value=200, ...)
IntervalMin == 2
DefaultLimit == 200

Schemas == {AllColumns, AllColumns \ {"timestamp"}, AllColumns \ {"copay"},
            AllColumns \ {"timestamp", "copay"}}

\* The script has reached its loop for the first time. The table has all its
\* columns or lacks the two that the script tests for ("timestamp", "copay");
\* the sidebar controls keep the values they have at the start.
InitDashboard ==
    /\ store = <<>>
    /\ columns \in Schemas
    /\ selected_status \in {status_options[i] : i \in 1 .. Len(status_options)}
    /\ update_interval = IntervalMin
    /\ limit_records = DefaultLimit
    /\ rerun = FALSE
    /\ dpc = "poll"
    /\ df_appointments = EmptyFrame
    /\ lastFetch = "none"
    /\ view = "none"
    /\ rollup = NoRollup
    /\ rendered = {}
    /\ slept = 0
    /\ derr = "none"

NextDashboard ==
    \/ Insert
    \/ ClickRefresh
    \/ Poll
    \/ Container
    \/ Charts
    \/ Tick
    \/ Wake
    \/ RerunAfterExit

InitProducer ==
    /\ ppc = "connect"
    /\ apt = NoEvent
    /\ generated = 0
    /\ count = 0
    /\ paced = 0
    /\ unacked = 0
    /\ attempts = 0
    /\ timeouts = 0
    /\ elapsed = 0
    /\ receipt = NoReceipt
    /\ fatal = "none"

NextProducer ==
    \/ Connect
    \/ Generate
    \/ Send
    \/ Attempt
    \/ Flush
    \/ Pace

\* The producer alone: the dashboard stays at the start of its loop.
InitProducerAlone ==
    /\ InitProducer
    /\ InitDashboard
    /\ columns = AllColumns
    /\ selected_status = "All"

SpecProducer == InitProducerAlone /\ [][NextProducer]_vars

\* The dashboard alone, over a store that fills while it runs.
InitLoop ==
    /\ InitProducer
    /\ InitDashboard

SpecLoop == InitLoop /\ [][NextDashboard]_vars

\* load_data called on its own, with any filter (none is "") and any limit,
\* against a store that fills.
InitFetch ==
    /\ InitProducer
    /\ store = <<>>
    /\ columns = AllColumns
    /\ selected_status \in {status_options[i] : i \in 1 .. Len(status_options)}
                           \cup {""}
    /\ update_interval = IntervalMin
    /\ limit_records \in 1 .. MaxRows
    /\ rerun = FALSE
    /\ dpc = "poll"
    /\ df_appointments = EmptyFrame
    /\ lastFetch = "none"
    /\ view = "none"
    /\ rollup = NoRollup
    /\ rendered = {}
    /\ slept = 0
    /\ derr = "none"

NextFetch ==
    \/ Insert
    \/ Poll

SpecFetch ==
    /\ InitFetch
    /\ [][NextFetch]_vars

(***************************************************************************)
(*                               properties                                *)
(***************************************************************************)

\* C1: when the send of an event exceeds the timeout on attempts 1 to 4 and
\* succeeds on attempt 5, the producer is still publishing after each of the
\* four timeouts (it has not terminated) and the event gets its receipt after
\* exactly 5 attempts.
C1_TimeoutsRetriedUntilFifthAttempt ==
    /\ (timeouts >= 1 /\ attempts <= 4) => ppc = "await"
    /\ (timeouts = 4 /\ ppc = "flush") =>
           (attempts = 5 /\ receipt # NoReceipt)

C1_Witness ==
    /\ ppc = "terminated"
    /\ fatal = "KafkaTimeoutError"
    /\ attempts = 1
    /\ timeouts = 1
    /\ receipt = NoReceipt

\* What the code does about C1: a receipt after five attempts is returned when
\* the first four fail at once or within the 10 s of the wait.
FifthAttemptAcknowledged ==
    ppc = "flush" /\ attempts = 5 /\ timeouts = 0 /\ receipt # NoReceipt

\* C2: a fatal publish failure (the initial attempt and all 5 retries failed,
\* or no connection at startup) terminates the producer: the failed event has
\* no receipt, and once terminated nothing is generated, sent or acknowledged.
C2_FatalPublishTerminates ==
    /\ [](/\ fatal # "none" => ppc = "terminated"
          /\ ppc = "await" => attempts <= Retries
          /\ (ppc = "terminated" /\ unacked > 0) => receipt = NoReceipt
          /\ (ppc = "terminated" /\ fatal = "NoBrokersAvailable") =>
                 generated = 0)
    /\ [][ppc = "terminated" =>
             /\ ppc' = "terminated"
             /\ generated' = generated
             /\ count' = count
             /\ unacked' = unacked
             /\ attempts' = attempts
             /\ receipt' = receipt]_vars

C2_Witness ==
    /\ ppc = "terminated"
    /\ fatal = "KafkaError"
    /\ attempts = Retries + 1
    /\ receipt = NoReceipt

\* C3: the producer's cycle is sequential: at most one event is sent and not
\* acknowledged, and an event is generated only when every earlier event has
\* been acknowledged and its pacing delay has elapsed.
C3_SequentialCycle ==
    /\ unacked <= 1
    /\ generated - count <= 1
    /\ ppc = "send" =>
           (unacked = 0 /\ count = generated - 1 /\ paced = generated - 1)
    /\ ppc = "await" => (unacked = 1 /\ count = generated - 1)

C3_Witness ==
    ppc = "send" /\ generated = 2 /\ count = 1 /\ paced = 1

\* C4: after every poll the loop is Waiting exactly when the frame is empty
\* (the notice, no rollup) and Displaying exactly when it has a row (the five
\* rollups and the raw rows rendered); it then sleeps and polls again, and
\* never ends on its own.
C4_TwoStateLoop ==
    /\ dpc # "crashed"
    /\ dpc = "sleep" => /\ view = "Waiting" <=> IsEmpty(df_appointments)
                        /\ view = "Displaying" <=> ~IsEmpty(df_appointments)
    /\ (dpc = "sleep" /\ view = "Waiting") =>
           (rendered = {"notice"} /\ rollup.computed = {})
    /\ (dpc = "sleep" /\ view = "Displaying") =>
           /\ rollup.computed = FiveRollups
           /\ {"kpis", "fig_status", "fig_urgency", "fig_payment",
               "raw_top10"} \subseteq rendered
           /\ "fig_flow" \in rendered \/ "fig_flow_placeholder" \in rendered

C4_Witness ==
    /\ dpc = "crashed"
    /\ derr = "KeyError"
    /\ view = "Displaying"
    /\ ~IsEmpty(df_appointments)
    /\ rendered = {"subheader", "kpis"}

\* What the code does about C4 on a table that has its "copay" column.
TwoStateLoopWithCopay == "copay" \in columns => C4_TwoStateLoop

\* C5: a failed query does not end the loop and is not retried at once: the
\* frame is empty, the cycle is the Waiting one, and the next poll comes only
\* after the whole update_interval has been slept (or after a manual rerun).
C5_QueryFailureWaits ==
    /\ [](lastFetch = "error" =>
             /\ IsEmpty(df_appointments)
             /\ derr = "none"
             /\ dpc \in {"container", "sleep", "poll"}
             /\ dpc \in {"sleep", "poll"} =>
                    (view = "Waiting" /\ rendered = {"notice"}))
    /\ [][(lastFetch = "error" /\ dpc # "poll" /\ dpc' = "poll") =>
             \/ dpc = "sleep" /\ slept = update_interval
             \/ rerun /\ ~rerun']_vars

C5_Witness ==
    /\ lastFetch = "error"
    /\ dpc = "poll"
    /\ slept = update_interval
    /\ view = "Waiting"

\* C6: "Refresh now", clicked while the loop sleeps, interrupts the sleep and
\* starts the next cycle at once (no further second of the sleep passes);
\* clicked while a cycle renders, it does not cut the rendering short; and a
\* click starts one new cycle, by the one script that runs.
C6_ManualRefreshInterruptsSleep ==
    [][/\ (dpc = "sleep" /\ rerun) => ~(dpc' = "sleep" /\ slept' > slept)
       /\ (dpc = "charts" /\ rerun) => dpc' # "poll"
       /\ (rerun /\ ~rerun') => dpc' = "poll"
      ]_vars

C6_Witness ==
    /\ dpc = "sleep"
    /\ rerun
    /\ slept = update_interval

\* C7: for every aggregated frame the KPI count is the number of rows, and
\* the counts of the status mix add up to the number of rows.
C7_CountsAddUp ==
    dpc \in {"charts", "sleep", "crashed"} =>
        /\ "kpis" \in rollup.computed =>
               rollup.kpis.total_appts = Len(df_appointments.rows)
        /\ "status_summary" \in rollup.computed =>
               SumSeq(Column(rollup.status_summary, "appointments")) = Len(df_appointments.rows)

C7_Witness ==
    /\ dpc = "sleep"
    /\ view = "Displaying"
    /\ Len(df_appointments.rows) = 2
    /\ Len(rollup.status_summary) = 2
    /\ \E i \in 1 .. 2 : rollup.status_summary[i].status = "Scheduled"

\* C8: every generated event has 0 <= copay <= cost; copay is 0 for Self-Pay
\* and within [10, 80] dollars for every other payment method.
C8_CopayBounds ==
    apt # NoEvent =>
        /\ 0 <= apt.copay
        /\ apt.copay <= apt.cost
        /\ apt.payment_method = "Self-Pay" => apt.copay = 0
        /\ apt.payment_method # "Self-Pay" =>
               (CopayMin <= apt.copay /\ apt.copay <= CopayMax)

C8_Witness ==
    /\ apt # NoEvent
    /\ apt.payment_method = "Self-Pay"
    /\ apt.copay = 0
    /\ apt.cost = BaseCostMin

\* The trend of a frame with timestamps: one row per minute, ascending, the
\* counts adding up to the number of rows.
TrendSound(trend, frame) ==
    /\ SumSeq(Column(trend, "appointments")) = Len(frame.rows)
    /\ \A i \in 1 .. Len(trend) - 1 : trend[i].timestamp < trend[i + 1].timestamp

\* C9: with a timestamp on every row the trend's counts add up to the number
\* of rows, in ascending order of the bucket; without a timestamp column the
\* trend is empty, the placeholder is rendered, and the cycle still completes
\* with the other four rollups.
C9_TrendRollup ==
    /\ (dpc = "sleep" /\ view = "Displaying" /\ "timestamp" \in df_appointments.columns) =>
           /\ rollup.volume_cost_trend # <<>>
           /\ TrendSound(rollup.volume_cost_trend, df_appointments)
    /\ (dpc \in {"sleep", "crashed"} /\ view = "Displaying"
        /\ "timestamp" \notin df_appointments.columns) =>
           /\ dpc = "sleep"
           /\ rollup.volume_cost_trend = <<>>
           /\ rollup.computed = FiveRollups
           /\ {"fig_flow_placeholder", "fig_status", "fig_urgency",
               "fig_payment"} \subseteq rendered

C9_Witness ==
    /\ dpc = "crashed"
    /\ view = "Displaying"
    /\ "timestamp" \notin df_appointments.columns
    /\ "volume_cost_trend" \notin rollup.computed

\* What the code does about C9 on a table that has its "copay" column.
TrendRollupWithCopay ==
    (dpc = "sleep" /\ view = "Displaying") =>
        IF "timestamp" \in df_appointments.columns
        THEN /\ rollup.volume_cost_trend # <<>>
             /\ TrendSound(rollup.volume_cost_trend, df_appointments)
             /\ "fig_flow" \in rendered
        ELSE /\ rollup.volume_cost_trend = <<>>
             /\ rollup.computed = FiveRollups
             /\ {"fig_flow_placeholder", "fig_status", "fig_urgency",
                 "fig_payment"} \subseteq rendered

\* The rows of the store that a filter admits, in arrival order.
Matching(status_filter) ==
    IF status_filter \in {"", "All"} THEN store
    ELSE SelectSeq(store, LAMBDA r : r.status = status_filter)

\* C10: a fetch returns only rows of the filtered status (every row for "All"
\* or no filter), at most `limit` of them: the most recent matching rows,
\* the most recent first.
C10_FetchMostRecent ==
    [][(dpc = "poll" /\ lastFetch' = "ok" /\ dpc' = "container") =>
          LET m == Matching(selected_status)
              k == Min2(limit_records, Len(m))
          IN  /\ \A i \in 1 .. Len(df_appointments'.rows) :
                     selected_status \in {"", "All"}
                     \/ df_appointments'.rows[i].status = selected_status
              /\ Len(df_appointments'.rows) <= limit_records
              /\ df_appointments'.rows = [i \in 1 .. k |-> m[Len(m) - i + 1]]]_vars

C10_Witness ==
    /\ dpc = "container"
    /\ lastFetch = "ok"
    /\ selected_status = "All"
    /\ limit_records = 1
    /\ Len(store) = 2
    /\ df_appointments.rows = <<store[1]>>

\* What the code does about C10: the filter and the limit hold, and the rows
\* are the matching rows of the greatest appointment_id, greatest first.
FetchGreatestIds ==
    [][(dpc = "poll" /\ lastFetch' = "ok" /\ dpc' = "container") =>
          LET m == Matching(selected_status)
              k == Min2(limit_records, Len(m))
              got == df_appointments'.rows
          IN  /\ \A i \in 1 .. Len(got) :
                     selected_status \in {"", "All"}
                     \/ got[i].status = selected_status
              /\ Len(got) = k
              /\ \A i \in 1 .. k : \E j \in 1 .. Len(m) : got[i] = m[j]
              /\ \A i \in 1 .. k - 1 :
                     got[i].appointment_id > got[i + 1].appointment_id
              /\ \A j \in 1 .. Len(m) :
                     (\A i \in 1 .. k : got[i] # m[j]) =>
                         (k > 0 /\ m[j].appointment_id < got[k].appointment_id)
      ]_vars

====
